---------------------------- MODULE Spec2Model ----------------------------
(***************************************************************************)
(* A model of notebooks/text_analysis_tutorial/text_analysis_tutorial_unrun *)
(* .ipynb: one Python kernel, whose global namespace the code cells bind     *)
(* and read, and the three demonstrations the notebook runs in it           *)
(*   topic     the Lee corpus, spaCy, the corpus-building loop, gensim      *)
(*   classify  20 newsgroups, TF-IDF, LSA, two classifiers                  *)
(*   generate  the character-level LSTM text generator                      *)
(* The import cells and the def cells are taken as run (Init); the cells    *)
(* that only display a value (doc, sent, texts[10], corpus[100], the        *)
(* to_categorical demonstration) bind nothing another cell reads and are    *)
(* left out.  The kernel runs one cell at a time; the cells of a branch run *)
(* in the order of the notebook, the branches in any order.                 *)
(* Line numbers are those of the .ipynb file.                               *)
(***************************************************************************)
EXTENDS Integers, Sequences, FiniteSets, TLC

(***************************************************************************)
(* Bounds of the model.  SEQ_LENGTH is 100 and the generation loop runs     *)
(* range(250) in the notebook (lines 535, 652); both are scaled down here,  *)
(* every formula is stated in terms of the two names.                       *)
(***************************************************************************)
SEQ_LENGTH == 2
N_GENERATE == 3
MaxDataLen == 5
MaxTokens == 3
MaxTrainDocs == 4
MaxTestDocs == 1
MaxLayers == 4

\* train(model, X[:1024], Y[:1024], 2, 512, vocab_size): n_epochs (line 736)
N_EPOCHS == 2
\* TfidfVectorizer(max_df=0.5, min_df=2, ...) (line 434); max_df as a fraction
MIN_DF == 2
MAX_DF_NUM == 1
MAX_DF_DEN == 2
\* gensim.models.Phrases(texts) (line 309): the defaults min_count, threshold
PHRASES_MIN_COUNT == 5
PHRASES_THRESHOLD == 10

VARIABLES
    \* the environment
    corpusFile,     \* lee_background.cor: [exists, content]
    nlpResult,      \* the tokens nlp(text) returns
    newsgroups,     \* fetch_20newsgroups: [train, test], each a list of documents
    \* the kernel
    writer,         \* name -> the branch whose cell bound it last ("none": unbound)
    pc,             \* branch -> index of its next cell
    running,        \* the cell in execution, "idle" between cells
    raised,         \* cell -> the exception that ended it ("none")
    crossReads,     \* history: <<cell, name>> read from another branch's binding
    \* topic branch
    text, stopFlags, doc, texts, article, wpos, appended, bigram,
    \* classify branch
    vectorizer, lsa, tfidf_train, tfidf_test, X_train, X_test, y_pred,
    \* generate branch
    data, chars, char_to_int, ix_to_char, vocab_size,
    list_X, list_Y, wi, dataReads, X, Y, n_out,
    modelArgs, model,
    epoch, best, lossHistory, files, weights,
    loaded, start, seed, pattern, output, gi

envVars == <<corpusFile, nlpResult, newsgroups>>
kernelVars == <<writer, pc, running, raised, crossReads>>
topicVars == <<text, stopFlags, doc, texts, article, wpos, appended, bigram>>
classifyVars == <<vectorizer, lsa, tfidf_train, tfidf_test, X_train, X_test, y_pred>>
dataVars == <<data, chars, char_to_int, ix_to_char, vocab_size>>
windowVars == <<list_X, list_Y, wi, dataReads, X, Y, n_out>>
trainVars == <<epoch, best, lossHistory, files, weights>>
genVars == <<loaded, start, seed, pattern, output, gi>>
modelVars == <<modelArgs, model>>
generateVars == <<dataVars, windowVars, modelVars, trainVars, genVars>>
vars == <<envVars, kernelVars, topicVars, classifyVars, generateVars>>

(***************************************************************************)
(* Helpers on sequences and sets.                                          *)
(***************************************************************************)
Range(s) == {s[k] : k \in 1..Len(s)}
SeqsUpTo(S, n) == UNION {[1..k -> S] : k \in 0..n}
Max(a, b) == IF a >= b THEN a ELSE b
Min(a, b) == IF a <= b THEN a ELSE b
SetMax(S) == CHOOSE m \in S : \A k \in S : k <= m
SetMin(S) == CHOOSE m \in S : \A k \in S : m <= k

(***************************************************************************)
(* The kernel: cells, the names each reads from the namespace and binds.    *)
(***************************************************************************)
Branches == {"topic", "classify", "generate"}
TopicCells == <<"load_corpus", "load_nlp", "stop_words", "pipeline",
                "build_corpus", "phrases", "apply_phrases", "dictionary", "lda">>
ClassifyCells == <<"fit_train", "extract_test", "naive_bayes", "svm">>
GenerateCells == <<"load_data", "windows", "reshape", "create_model", "train",
                   "generate_1", "generate_2">>
BranchCells(b) ==
    CASE b = "topic" -> TopicCells
      [] b = "classify" -> ClassifyCells
      [] b = "generate" -> GenerateCells
Cells == Range(TopicCells) \cup Range(ClassifyCells) \cup Range(GenerateCells)
CellBranch(c) == CHOOSE b \in Branches : c \in Range(BranchCells(b))

\* bound by the import, constant and def cells (lines 31-51, 402-418, 531-535,
\* 577-663)
SetupNames == {"os", "gensim", "np", "spacy", "Dictionary", "LdaModel",
               "sklearn_imports", "categories", "keras_imports", "SEQ_LENGTH",
               "create_model", "train", "generate_text"}
TopicNames == {"text", "nlp", "my_stop_words", "stopword", "lexeme", "doc",
               "texts", "article", "w", "bigram", "dictionary", "corpus",
               "ldamodel"}
ClassifyNames == {"data_train", "n_components", "labels", "true_k", "vectorizer",
                  "X_train", "svd", "normalizer", "lsa", "data_test",
                  "target_names", "y_train", "y_test", "X_test", "gnb",
                  "y_pred_NB", "svm", "y_pred_SVM"}
GenerateNames == {"data", "chars", "char_to_int", "ix_to_char", "vocab_size",
                  "list_X", "list_Y", "i", "seq_in", "seq_out", "n_patterns",
                  "X", "Y", "model"}
SharedNames == {"test_data_dir", "lee_train_file"}
Names == SetupNames \cup TopicNames \cup ClassifyNames \cup GenerateNames
            \cup SharedNames

\* the names a cell reads that it has not bound itself before the read
TopicReads(c) ==
    CASE c = "load_corpus" -> {"os", "gensim"}
      [] c = "load_nlp" -> {"spacy"}
      [] c = "stop_words" -> {"nlp"}
      [] c = "pipeline" -> {"nlp", "text"}
      [] c = "build_corpus" -> {"doc"}
      [] c = "phrases" -> {"gensim", "texts"}
      [] c = "apply_phrases" -> {"bigram", "texts"}
      [] c = "dictionary" -> {"Dictionary", "texts"}
      [] c = "lda" -> {"LdaModel", "corpus", "dictionary"}
ClassifyReads(c) ==
    CASE c = "fit_train" -> {"sklearn_imports", "categories", "np"}
      [] c = "extract_test" -> {"sklearn_imports", "categories", "data_train",
                                "vectorizer", "lsa"}
      [] c = "naive_bayes" -> {"sklearn_imports", "X_train", "y_train", "X_test"}
      [] c = "svm" -> {"sklearn_imports", "X_train", "y_train", "X_test"}
\* a slip: the generation cell reuses the text the topic branch has read
GenerateReadsReusingText(c) ==
    CASE c = "load_data" -> {"text"}
      [] c = "windows" -> {"data", "SEQ_LENGTH", "char_to_int"}
      [] c = "reshape" -> {"np", "list_X", "n_patterns", "SEQ_LENGTH",
                           "keras_imports", "list_Y"}
      [] c = "create_model" -> {"create_model", "X", "Y"}
      [] c = "train" -> {"train", "model", "X", "Y", "vocab_size"}
      [] c \in {"generate_1", "generate_2"} ->
            {"generate_text", "model", "X", "ix_to_char", "vocab_size"}
GenerateReads(c) ==
    CASE c = "load_data" -> {"os", "gensim"}
      [] c = "windows" -> {"data", "SEQ_LENGTH", "char_to_int"}
      [] c = "reshape" -> {"np", "list_X", "n_patterns", "SEQ_LENGTH",
                           "keras_imports", "list_Y"}
      [] c = "create_model" -> {"create_model", "X", "Y"}
      [] c = "train" -> {"train", "model", "X", "Y", "vocab_size"}
      [] c \in {"generate_1", "generate_2"} ->
            {"generate_text", "model", "X", "ix_to_char", "vocab_size"}
CellReads(c) ==
    CASE CellBranch(c) = "topic" -> TopicReads(c)
      [] CellBranch(c) = "classify" -> ClassifyReads(c)
      [] CellBranch(c) = "generate" -> GenerateReads(c)

\* the names a cell binds when it runs to its end
CellWrites(c) ==
    CASE c = "load_corpus" -> {"test_data_dir", "lee_train_file", "text"}
      [] c = "load_nlp" -> {"nlp"}
      [] c = "stop_words" -> {"my_stop_words", "stopword", "lexeme"}
      [] c = "pipeline" -> {"doc"}
      [] c = "build_corpus" -> {"texts", "article", "w"}
      [] c = "phrases" -> {"bigram"}
      [] c = "apply_phrases" -> {"texts"}
      [] c = "dictionary" -> {"dictionary", "corpus"}
      [] c = "lda" -> {"ldamodel"}
      [] c = "fit_train" -> {"data_train", "n_components", "labels", "true_k",
                             "vectorizer", "X_train", "svd", "normalizer", "lsa"}
      [] c = "extract_test" -> {"data_test", "target_names", "y_train", "y_test",
                                "X_test"}
      [] c = "naive_bayes" -> {"gnb", "y_pred_NB"}
      [] c = "svm" -> {"svm", "y_pred_SVM"}
      [] c = "load_data" -> {"test_data_dir", "lee_train_file", "data", "chars",
                             "char_to_int", "ix_to_char", "vocab_size"}
      [] c = "windows" -> {"list_X", "list_Y", "i", "seq_in", "seq_out",
                           "n_patterns"}
      [] c = "reshape" -> {"X", "Y"}
      [] c = "create_model" -> {"model"}
      [] c \in {"train", "generate_1", "generate_2"} -> {}

\* the names a cell has bound when its first read of another cell's name raises
CellWritesBeforeRead(c) ==
    CASE c = "stop_words" -> {"my_stop_words", "stopword"}
      [] c = "build_corpus" -> {"texts", "article"}
      [] c = "windows" -> {"list_X", "list_Y"}
      [] OTHER -> {}

Bound(n) == writer[n] # "none"
Missing(c) == {n \in CellReads(c) : ~Bound(n)}
Ready(c) ==
    /\ running = "idle"
    /\ pc[CellBranch(c)] <= Len(BranchCells(CellBranch(c)))
    /\ BranchCells(CellBranch(c))[pc[CellBranch(c)]] = c
ForeignReads(c) ==
    {<<c, n>> : n \in {m \in CellReads(c) :
                        writer[m] \notin {"none", "setup", CellBranch(c)}}}
BindNames(c, W) ==
    /\ writer' = [n \in Names |-> IF n \in W THEN CellBranch(c) ELSE writer[n]]
    /\ crossReads' = crossReads \cup ForeignReads(c)
\* the cell ends: with exception exc ("none": normally), having bound W
Finish(c, exc, W) ==
    /\ BindNames(c, W)
    /\ raised' = [raised EXCEPT ![c] = exc]
    /\ pc' = [pc EXCEPT ![CellBranch(c)] = @ + 1]
    /\ running' = "idle"
\* a loop cell begins: it stays in execution
Enter(c, W) ==
    /\ BindNames(c, W)
    /\ running' = c
    /\ UNCHANGED <<raised, pc>>
\* a cell that reads an unbound name raises NameError at that statement
NameError(c) ==
    /\ Ready(c)
    /\ Missing(c) # {}
    /\ Finish(c, "NameError", CellWritesBeforeRead(c))
NameErrorCell ==
    \E c \in Cells \ {"build_corpus", "windows", "extract_test"} :
        /\ NameError(c)
        /\ UNCHANGED <<envVars, topicVars, classifyVars, generateVars>>


(***************************************************************************)
(* Topic branch: the corpus file, spaCy's tokens, the corpus-building loop. *)
(* A token is identified by its text; spaCy's lexical attributes are        *)
(* functions of the text, is_stop a flag of the shared vocabulary entry.    *)
(***************************************************************************)
TokenTexts == {"\n", "the", "said", ",", "42", "cats"}
\* the stop list the English pipeline ships with, among TokenTexts
DefaultStops == {"the"}
my_stop_words == {"say", "'s", "Mr", "be", "said", "says", "saying"}
IsPunct(t) == t \in {","}
LikeNum(t) == t \in {"42"}
Lemma(t) == CASE t = "cats" -> "cat" [] t = "said" -> "say" [] OTHER -> t
IsStop(t) == t \in stopFlags

\* text = open(lee_train_file).read()
LoadCorpus ==
    /\ Ready("load_corpus")
    /\ Missing("load_corpus") = {}
    /\ IF corpusFile.exists
         THEN /\ text' = corpusFile.content
              /\ Finish("load_corpus", "none", CellWrites("load_corpus"))
         ELSE /\ text' = text
              /\ Finish("load_corpus", "IOError", {"test_data_dir", "lee_train_file"})
    /\ UNCHANGED <<envVars, stopFlags, doc, texts, article, wpos, appended, bigram,
                   classifyVars, generateVars>>

\* nlp = spacy.load("en")
LoadNlp ==
    /\ Ready("load_nlp")
    /\ Missing("load_nlp") = {}
    /\ stopFlags' = DefaultStops
    /\ Finish("load_nlp", "none", CellWrites("load_nlp"))
    /\ UNCHANGED <<envVars, text, doc, texts, article, wpos, appended, bigram,
                   classifyVars, generateVars>>

\* for stopword in my_stop_words: nlp.vocab[stopword].is_stop = True
StopWords ==
    /\ Ready("stop_words")
    /\ Missing("stop_words") = {}
    /\ stopFlags' = stopFlags \cup my_stop_words
    /\ Finish("stop_words", "none", CellWrites("stop_words"))
    /\ UNCHANGED <<envVars, text, doc, texts, article, wpos, appended, bigram,
                   classifyVars, generateVars>>

\* doc = nlp(text)
Pipeline ==
    /\ Ready("pipeline")
    /\ Missing("pipeline") = {}
    /\ doc' = nlpResult
    /\ Finish("pipeline", "none", CellWrites("pipeline"))
    /\ UNCHANGED <<envVars, text, stopFlags, texts, article, wpos, appended, bigram,
                   classifyVars, generateVars>>

\* a slip: the article is not emptied at a newline
CorpusStepNoReset(w, t, a) ==
    LET keep == w # "\n" /\ ~IsStop(w) /\ ~IsPunct(w) /\ ~LikeNum(w)
        a1 == IF keep THEN Append(a, Lemma(w)) ELSE a
    IN  IF w = "\n"
          THEN [texts |-> Append(t, a1), article |-> a1, kept |-> keep]
          ELSE [texts |-> t, article |-> a1, kept |-> keep]
\* a slip: the number test is left out of the condition
CorpusStepKeepingNumbers(w, t, a) ==
    LET keep == w # "\n" /\ ~IsStop(w) /\ ~IsPunct(w)
        a1 == IF keep THEN Append(a, Lemma(w)) ELSE a
    IN  IF w = "\n"
          THEN [texts |-> Append(t, a1), article |-> <<>>, kept |-> keep]
          ELSE [texts |-> t, article |-> a1, kept |-> keep]
\* the body of 'for w in doc' on token w, with texts t and article a
CorpusStep(w, t, a) ==
    LET keep == w # "\n" /\ ~IsStop(w) /\ ~IsPunct(w) /\ ~LikeNum(w)
        a1 == IF keep THEN Append(a, Lemma(w)) ELSE a
    IN  IF w = "\n"
          THEN [texts |-> Append(t, a1), article |-> <<>>, kept |-> keep]
          ELSE [texts |-> t, article |-> a1, kept |-> keep]

\* texts, article = [], []   and the loop is entered (or doc is unbound)
BuildCorpusStart ==
    /\ Ready("build_corpus")
    /\ texts' = <<>>
    /\ article' = <<>>
    /\ wpos' = 0
    /\ appended' = <<>>
    /\ IF Missing("build_corpus") = {}
         THEN Enter("build_corpus", CellWritesBeforeRead("build_corpus"))
         ELSE Finish("build_corpus", "NameError", CellWritesBeforeRead("build_corpus"))
    /\ UNCHANGED <<envVars, text, stopFlags, doc, bigram, classifyVars, generateVars>>

BuildCorpusStep ==
    /\ running = "build_corpus"
    /\ wpos < Len(doc)
    /\ LET r == CorpusStep(doc[wpos + 1], texts, article)
       IN  /\ texts' = r.texts
           /\ article' = r.article
           /\ appended' = IF r.kept THEN Append(appended, wpos + 1) ELSE appended
    /\ wpos' = wpos + 1
    /\ UNCHANGED <<envVars, kernelVars, text, stopFlags, doc, bigram,
                   classifyVars, generateVars>>

BuildCorpusEnd ==
    /\ running = "build_corpus"
    /\ wpos = Len(doc)
    /\ Finish("build_corpus", "none",
              IF Len(doc) > 0 THEN CellWrites("build_corpus") ELSE {"texts", "article"})
    /\ UNCHANGED <<envVars, topicVars, classifyVars, generateVars>>

\* gensim's Phrases: the pairs of adjacent words it scores above the threshold
RECURSIVE CountWord(_, _)
CountWord(line, a) ==
    IF line = <<>> THEN 0
    ELSE (IF line[1] = a THEN 1 ELSE 0) + CountWord(Tail(line), a)
RECURSIVE CountPair(_, _, _)
CountPair(line, a, b) ==
    IF Len(line) < 2 THEN 0
    ELSE (IF line[1] = a /\ line[2] = b THEN 1 ELSE 0) + CountPair(Tail(line), a, b)
RECURSIVE TotalWord(_, _)
TotalWord(lines, a) ==
    IF lines = <<>> THEN 0 ELSE CountWord(lines[1], a) + TotalWord(Tail(lines), a)
RECURSIVE TotalPair(_, _, _)
TotalPair(lines, a, b) ==
    IF lines = <<>> THEN 0
    ELSE CountPair(lines[1], a, b) + TotalPair(Tail(lines), a, b)
PhrasePairs(lines) ==
    LET words == UNION {Range(lines[k]) : k \in 1..Len(lines)}
        pairs == UNION {{<<lines[k][j], lines[k][j + 1]>> : j \in 1..(Len(lines[k]) - 1)}
                        : k \in 1..Len(lines)}
        len_vocab == Cardinality(words) + Cardinality(pairs)
    IN  {p \in pairs :
            (TotalPair(lines, p[1], p[2]) - PHRASES_MIN_COUNT) * len_vocab
                > PHRASES_THRESHOLD * TotalWord(lines, p[1]) * TotalWord(lines, p[2])}
RECURSIVE MergePhrases(_, _)
MergePhrases(line, pairs) ==
    IF Len(line) < 2 THEN line
    ELSE IF <<line[1], line[2]>> \in pairs
           THEN <<line[1] \o "_" \o line[2]>> \o MergePhrases(SubSeq(line, 3, Len(line)), pairs)
           ELSE <<line[1]>> \o MergePhrases(Tail(line), pairs)

\* bigram = gensim.models.Phrases(texts)
Phrases ==
    /\ Ready("phrases")
    /\ Missing("phrases") = {}
    /\ bigram' = PhrasePairs(texts)
    /\ Finish("phrases", "none", CellWrites("phrases"))
    /\ UNCHANGED <<envVars, text, stopFlags, doc, texts, article, wpos, appended,
                   classifyVars, generateVars>>

\* texts = [bigram[line] for line in texts]
ApplyPhrases ==
    /\ Ready("apply_phrases")
    /\ Missing("apply_phrases") = {}
    /\ texts' = [k \in 1..Len(texts) |-> MergePhrases(texts[k], bigram)]
    /\ Finish("apply_phrases", "none", CellWrites("apply_phrases"))
    /\ UNCHANGED <<envVars, text, stopFlags, doc, article, wpos, appended, bigram,
                   classifyVars, generateVars>>

\* dictionary, corpus = ...; ldamodel = LdaModel(...): gensim objects, whose
\* content no other cell of the model reads
TopicModel ==
    \E c \in {"dictionary", "lda"} :
        /\ Ready(c)
        /\ Missing(c) = {}
        /\ Finish(c, "none", CellWrites(c))
        /\ UNCHANGED <<envVars, topicVars, classifyVars, generateVars>>

NextTopic ==
    \/ LoadCorpus
    \/ LoadNlp
    \/ StopWords
    \/ Pipeline
    \/ BuildCorpusStart
    \/ BuildCorpusStep
    \/ BuildCorpusEnd
    \/ Phrases
    \/ ApplyPhrases
    \/ TopicModel
    \/ NameErrorCell

(***************************************************************************)
(* Classify branch.  A document is the set of its terms; a fitted          *)
(* TfidfVectorizer is its vocabulary and, per term, the numbers its idf     *)
(* weight is computed from; a fitted reduction is the matrix it was fitted  *)
(* on.  tfidf_train and tfidf_test keep the values X_train and X_test hold  *)
(* between their two assignments (lines 435/442, 460/461).                  *)
(***************************************************************************)
DocSet == {{"space"}, {"space", "image"}, {"the", "image"}}
EnglishStopWords == {"the"}
Unfitted == [fits |-> 0, fitted |-> FALSE, vocabulary |-> {}, idf |-> <<>>]
NoMatrix == [rows |-> <<>>, basis |-> <<>>]

DocFreq(docs, t) == Cardinality({k \in 1..Len(docs) : t \in docs[k]})
\* the terms TfidfVectorizer(max_df=0.5, min_df=2, stop_words='english') keeps
FitVocabulary(docs) ==
    {t \in (UNION Range(docs)) \ EnglishStopWords :
        /\ DocFreq(docs, t) >= MIN_DF
        /\ DocFreq(docs, t) * MAX_DF_DEN <= MAX_DF_NUM * Len(docs)}
\* fit raises ValueError when max_df * n_docs < min_df or no term remains
FitFails(docs) ==
    \/ MAX_DF_NUM * Len(docs) < MIN_DF * MAX_DF_DEN
    \/ FitVocabulary(docs) = {}
FitVectorizer(v, docs) ==
    [fits |-> v.fits + 1, fitted |-> TRUE, vocabulary |-> FitVocabulary(docs),
     idf |-> [t \in FitVocabulary(docs) |-> <<Len(docs), DocFreq(docs, t)>>]]
\* vectorizer.transform: one row per document, one column per vocabulary term
Transform(v, docs) ==
    [k \in 1..Len(docs) |->
        [t \in v.vocabulary |-> IF t \in docs[k] THEN v.idf[t] ELSE <<0, 0>>]]
\* a slip: the test features come from fit_transform, as the reduction's do
ExtractTestRefitting(v, docs) ==
    [vectorizer |-> FitVectorizer(v, docs),
     matrix |-> Transform(FitVectorizer(v, docs), docs)]
\* X_test = vectorizer.transform(data_test.data): the vectorizer after the
\* call and the matrix returned
ExtractTest(v, docs) ==
    [vectorizer |-> v, matrix |-> Transform(v, docs)]
\* lsa.fit_transform(M): the pipeline after the call and the matrix returned
LsaFitTransform(l, M) ==
    [lsa |-> [fits |-> l.fits + 1, components |-> M],
     matrix |-> [rows |-> M, basis |-> M]]

\* lines 427-442
FitTrain ==
    /\ Ready("fit_train")
    /\ Missing("fit_train") = {}
    /\ IF FitFails(newsgroups.train)
         THEN /\ vectorizer' = Unfitted
              /\ UNCHANGED <<lsa, tfidf_train, X_train>>
              /\ Finish("fit_train", "ValueError",
                        {"data_train", "n_components", "labels", "true_k", "vectorizer"})
         ELSE LET v == FitVectorizer(Unfitted, newsgroups.train)
                  r == LsaFitTransform([fits |-> 0, components |-> <<>>],
                                       Transform(v, newsgroups.train))
              IN  /\ vectorizer' = v
                  /\ tfidf_train' = Transform(v, newsgroups.train)
                  /\ lsa' = r.lsa
                  /\ X_train' = r.matrix
                  /\ Finish("fit_train", "none", CellWrites("fit_train"))
    /\ UNCHANGED <<envVars, tfidf_test, X_test, y_pred, topicVars, generateVars>>

\* lines 452-461
ExtractTestCell ==
    /\ Ready("extract_test")
    /\ Missing("extract_test") \subseteq {"lsa"}
    /\ IF ~vectorizer.fitted
         THEN /\ UNCHANGED <<vectorizer, lsa, tfidf_test, X_test>>
              /\ Finish("extract_test", "NotFittedError",
                        {"data_test", "target_names", "y_train", "y_test"})
         ELSE LET e == ExtractTest(vectorizer, newsgroups.test)
                  r == LsaFitTransform(lsa, e.matrix)
              IN  /\ vectorizer' = e.vectorizer
                  /\ tfidf_test' = e.matrix
                  /\ lsa' = r.lsa
                  /\ X_test' = r.matrix
                  /\ Finish("extract_test", "none", CellWrites("extract_test"))
    /\ UNCHANGED <<envVars, tfidf_train, X_train, y_pred, topicVars, generateVars>>

\* y_pred = clf.fit(X_train, y_train).predict(X_test), lines 486-487, 505-506
Classify ==
    \E c \in {"naive_bayes", "svm"} :
        /\ Ready(c)
        /\ Missing(c) = {}
        /\ y_pred' = [y_pred EXCEPT ![c] =
                        [done |-> TRUE, fit_basis |-> X_train.basis,
                         predict_basis |-> X_test.basis, lsa |-> lsa.components]]
        /\ Finish(c, "none", CellWrites(c))
        /\ UNCHANGED <<envVars, vectorizer, lsa, tfidf_train, tfidf_test, X_train,
                       X_test, topicVars, generateVars>>

NextClassify ==
    \/ FitTrain
    \/ ExtractTestCell
    \/ Classify
    \/ NameErrorCell

(***************************************************************************)
(* Generate branch: the data cells.  A character is its code point; a      *)
(* string is the sequence of its characters, Python's index k being k + 1   *)
(* here.                                                                   *)
(***************************************************************************)
RECURSIVE ListOfSet(_)
ListOfSet(S) ==
    IF S = {} THEN <<>>
    ELSE LET e == CHOOSE e \in S : TRUE IN <<e>> \o ListOfSet(S \ {e})
\* sorted(l), duplicates kept
RECURSIVE SortedList(_)
SortedList(l) ==
    IF l = <<>> THEN <<>>
    ELSE LET m == SetMin(Range(l))
             IsM(e) == e = m
             NotM(e) == e # m
         IN  SelectSeq(l, IsM) \o SortedList(SelectSeq(l, NotM))
\* a slip: the characters are sorted without being made unique
UniqueCharsNoSet(d) == SortedList(d)
\* chars = sorted(list(set(data)))
UniqueChars(d) == SortedList(ListOfSet(Range(d)))
\* dict((c, i) for i, c in enumerate(chars)): a later pair replaces an earlier
CharToInt(ch) ==
    [c \in Range(ch) |-> SetMax({k \in 0..(Len(ch) - 1) : ch[k + 1] = c})]
\* dict((i, c) for i, c in enumerate(chars))
IxToChar(ch) == [k \in 0..(Len(ch) - 1) |-> ch[k + 1]]

\* lines 675-682
LoadData ==
    /\ Ready("load_data")
    /\ Missing("load_data") = {}
    /\ IF corpusFile.exists
         THEN /\ data' = corpusFile.content
              /\ chars' = UniqueChars(corpusFile.content)
              /\ char_to_int' = CharToInt(UniqueChars(corpusFile.content))
              /\ ix_to_char' = IxToChar(UniqueChars(corpusFile.content))
              /\ vocab_size' = Len(UniqueChars(corpusFile.content))
              /\ Finish("load_data", "none", CellWrites("load_data"))
         ELSE /\ UNCHANGED dataVars
              /\ Finish("load_data", "IOError", {"test_data_dir", "lee_train_file"})
    /\ UNCHANGED <<envVars, modelVars, windowVars, trainVars, genVars, topicVars, classifyVars>>

\* a slip: the range runs one index too far
WindowCountOffByOne(d) == Max(0, Len(d) - SEQ_LENGTH + 1)
\* len(range(0, len(data) - SEQ_LENGTH, 1))
WindowCount(d) == Max(0, Len(d) - SEQ_LENGTH)
\* data[lo : hi], a slice: clipped to the string
Slice(d, lo, hi) == SubSeq(d, lo + 1, Min(hi, Len(d)))
\* the indices of data the slice reads
SliceIndices(d, lo, hi) == lo..(Min(hi, Len(d)) - 1)

\* list_X = []; list_Y = []   and the loop is entered (or data is unbound)
WindowsStart ==
    /\ Ready("windows")
    /\ list_X' = <<>>
    /\ list_Y' = <<>>
    /\ wi' = 0
    /\ dataReads' = {}
    /\ IF Missing("windows") = {}
         THEN Enter("windows", CellWritesBeforeRead("windows"))
         ELSE Finish("windows", "NameError", CellWritesBeforeRead("windows"))
    /\ UNCHANGED <<envVars, modelVars, dataVars, X, Y, n_out, trainVars, genVars, topicVars,
                   classifyVars>>

\* one iteration: seq_in, seq_out, the two appends; data[i + SEQ_LENGTH] raises
\* IndexError past the end of the string
WindowsStep ==
    /\ running = "windows"
    /\ wi < WindowCount(data)
    /\ dataReads' = dataReads \cup SliceIndices(data, wi, wi + SEQ_LENGTH)
                        \cup {wi + SEQ_LENGTH}
    /\ IF wi + SEQ_LENGTH < Len(data)
         THEN LET seq_in == Slice(data, wi, wi + SEQ_LENGTH)
                  seq_out == data[wi + SEQ_LENGTH + 1]
              IN  /\ list_X' = Append(list_X,
                                      [j \in 1..Len(seq_in) |-> char_to_int[seq_in[j]]])
                  /\ list_Y' = Append(list_Y, char_to_int[seq_out])
                  /\ wi' = wi + 1
                  /\ UNCHANGED kernelVars
         ELSE /\ UNCHANGED <<list_X, list_Y, wi>>
              /\ Finish("windows", "IndexError", {"i", "seq_in"})
    /\ UNCHANGED <<envVars, modelVars, dataVars, X, Y, n_out, trainVars, genVars, topicVars,
                   classifyVars>>

\* the loop is over: n_patterns = len(list_X)
WindowsEnd ==
    /\ running = "windows"
    /\ wi = WindowCount(data)
    /\ Finish("windows", "none",
              IF wi > 0 THEN CellWrites("windows") ELSE {"n_patterns"})
    /\ UNCHANGED <<envVars, generateVars, topicVars, classifyVars>>

\* a slip: the one-hot rows are one column wider than the largest id needs
ToCategoricalWidthPadded(l) == SetMax(Range(l)) + 2
\* np_utils.to_categorical(l): num_classes = np.max(l) + 1
ToCategoricalWidth(l) == SetMax(Range(l)) + 1
\* one one-hot row per element of l, columns 0 .. num_classes - 1
ToCategorical(l) ==
    [k \in 1..Len(l) |->
        [j \in 0..(ToCategoricalWidth(l) - 1) |-> IF j = l[k] THEN 1 ELSE 0]]
\* Y.shape[1]
Shape1(M) == Cardinality(DOMAIN M[1])

\* lines 716-718: np.reshape raises ValueError unless list_X holds n_patterns *
\* SEQ_LENGTH numbers, to_categorical raises it on an empty list
Reshape ==
    /\ Ready("reshape")
    /\ Missing("reshape") = {}
    /\ IF \E k \in 1..Len(list_X) : Len(list_X[k]) # SEQ_LENGTH
         THEN /\ UNCHANGED <<X, Y>>
              /\ Finish("reshape", "ValueError", {})
         ELSE IF list_Y = <<>>
           THEN /\ X' = list_X
                /\ UNCHANGED Y
                /\ Finish("reshape", "ValueError", {"X"})
           ELSE /\ X' = list_X
                /\ Y' = ToCategorical(list_Y)
                /\ Finish("reshape", "none", CellWrites("reshape"))
    /\ UNCHANGED <<envVars, modelVars, dataVars, list_X, list_Y, wi, dataReads, n_out, trainVars,
                   genVars, topicVars, classifyVars>>

NextData ==
    \/ LoadData
    \/ WindowsStart
    \/ WindowsStep
    \/ WindowsEnd
    \/ Reshape
    \/ NameErrorCell

(***************************************************************************)
(* Generate branch: create_model, train and generate_text.  A loss is a    *)
(* number of 1e-5 units; the weights of the model are identified by the     *)
(* epoch that produced them (0: as initialised, -1: no model).  A file of   *)
(* the Weights directory is its name and the weights saved in it.           *)
(***************************************************************************)
\* the losses an epoch may report: 4.30504, 4.02288, 4.15000
LossValues == {430504, 402288, 415000}
\* ModelCheckpoint(mode = 'min') starts from best = np.Inf
Infinity == 999999
\* '{loss:.4f}': the loss in units of 1e-4, rounded
Format4f(l) == (l + 5) \div 10
\* "Weights/weights-improvement-{epoch:02d}-{loss:.4f}.hdf5", epochs from 1
CheckpointName(e, l) == <<e, Format4f(l)>>
\* a slip: save_best_only left off, every epoch is saved
ImprovedAlways(l, b) == TRUE
\* monitor = 'loss', save_best_only = True, mode = 'min': np.less(current, best)
Improved(l, b) == l < b
\* the file names the two generate_text cells pass (lines 745, 754)
GenerateFile(c) ==
    CASE c = "generate_1" -> <<1, 43050>>
      [] c = "generate_2" -> <<2, 40229>>
FileNames == {f.name : f \in files}
FileNamed(n) == CHOOSE f \in files : f.name = n

\* the arguments of a create_model call; drop_rate and activation are never
\* passed and keep their defaults
NoArgs == [n_layers |-> 0, input_shape |-> <<>>, hidden_dim |-> 0, n_out |-> 0,
           mode |-> "none"]
LSTM(hidden_dim, return_sequences) ==
    [kind |-> "LSTM", units |-> hidden_dim, return_sequences |-> return_sequences]
\* drop = kwargs.get('drop_rate', 0.2), as a fraction
Dropout == [kind |-> "Dropout", rate |-> <<2, 10>>]
Dense(n, activ) == [kind |-> "Dense", units |-> n, activation |-> activ]
\* if mode == 'train': model.add( Dropout(drop) )
DropoutIfTrain(mode) == IF mode = "train" THEN <<Dropout>> ELSE <<>>
\* a slip: the loop runs range(n_layers - 1)
RECURSIVE MiddleLayersOneMore(_, _, _)
MiddleLayersOneMore(k, hidden_dim, mode) ==
    IF k + 1 <= 0 THEN <<>>
    ELSE <<LSTM(hidden_dim, TRUE)>> \o DropoutIfTrain(mode)
            \o MiddleLayersOneMore(k - 1, hidden_dim, mode)
\* for i in range(k): LSTM(hidden_dim, return_sequences = True), Dropout
RECURSIVE MiddleLayers(_, _, _)
MiddleLayers(k, hidden_dim, mode) ==
    IF k <= 0 THEN <<>>
    ELSE <<LSTM(hidden_dim, TRUE)>> \o DropoutIfTrain(mode)
            \o MiddleLayers(k - 1, hidden_dim, mode)
\* the layers of the Sequential model create_model returns, in the order added
create_model(n_layers, input_shape, hidden_dim, n_out_, mode) ==
    (IF n_layers = 1
       THEN <<LSTM(hidden_dim, FALSE)>> \o DropoutIfTrain(mode)
       ELSE <<LSTM(hidden_dim, TRUE)>> \o DropoutIfTrain(mode)
                \o MiddleLayers(n_layers - 2, hidden_dim, mode)
                \o <<LSTM(hidden_dim, FALSE)>>)
        \o <<Dense(n_out_, "softmax")>>

\* a call of create_model on its own
CreateModelCall ==
    /\ modelArgs # NoArgs
    /\ model = <<>>
    /\ model' = create_model(modelArgs.n_layers, modelArgs.input_shape,
                             modelArgs.hidden_dim, modelArgs.n_out, modelArgs.mode)
    /\ UNCHANGED <<envVars, kernelVars, topicVars, classifyVars, dataVars, windowVars,
                   modelArgs, trainVars, genVars>>

\* model = create_model(1, X.shape, 256, Y.shape[1], mode = 'train')
CreateModel ==
    /\ Ready("create_model")
    /\ Missing("create_model") = {}
    /\ weights' = 0
    /\ n_out' = Shape1(Y)
    /\ modelArgs' = [n_layers |-> 1, input_shape |-> <<Len(X), SEQ_LENGTH, 1>>,
                     hidden_dim |-> 256, n_out |-> Shape1(Y), mode |-> "train"]
    /\ model' = create_model(1, <<Len(X), SEQ_LENGTH, 1>>, 256, Shape1(Y), "train")
    /\ Finish("create_model", "none", CellWrites("create_model"))
    /\ UNCHANGED <<envVars, dataVars, list_X, list_Y, wi, dataReads, X, Y, epoch, best,
                   lossHistory, files, genVars, topicVars, classifyVars>>

\* train(...): compile, the checkpoint callback is created, fit begins
TrainStart ==
    /\ Ready("train")
    /\ Missing("train") = {}
    /\ epoch' = 0
    /\ best' = Infinity
    /\ lossHistory' = <<>>
    /\ Enter("train", {})
    /\ UNCHANGED <<envVars, modelVars, dataVars, windowVars, files, weights, genVars,
                   topicVars, classifyVars>>

\* one epoch of model.fit and the callback's on_epoch_end
TrainEpoch ==
    /\ running = "train"
    /\ epoch < N_EPOCHS
    /\ \E l \in LossValues :
        /\ lossHistory' = Append(lossHistory, l)
        /\ IF Improved(l, best)
             THEN /\ best' = l
                  /\ files' = {f \in files : f.name # CheckpointName(epoch + 1, l)}
                        \cup {[name |-> CheckpointName(epoch + 1, l),
                               weights |-> epoch + 1]}
             ELSE UNCHANGED <<best, files>>
    /\ epoch' = epoch + 1
    /\ weights' = epoch + 1
    /\ UNCHANGED <<envVars, modelVars, kernelVars, dataVars, windowVars, genVars, topicVars,
                   classifyVars>>

\* fit returns after n_epochs epochs
TrainEnd ==
    /\ running = "train"
    /\ epoch = N_EPOCHS
    /\ Finish("train", "none", {})
    /\ UNCHANGED <<envVars, generateVars, topicVars, classifyVars>>

\* a slip: a failing load_weights is swallowed and generation goes on
LoadFailsNever(n) == FALSE
\* model.load_weights(filename) raises OSError when the file does not exist
LoadFails(n) == n \notin FileNames
\* a slip: the pattern is not cut after the append
SlideNoCut(p, index) == Append(p, index)
\* pattern.append(index); pattern = pattern[1 : len(pattern)]
Slide(p, index) == SubSeq(Append(p, index), 2, Len(p) + 1)

\* a slip: the bounds are taken as random.randint takes them, both included
RandintInclusive(low, high) == low..high
\* np.random.randint(low, high): the values it may return, low included and
\* high excluded; it raises ValueError when there is none
Randint(low, high) == low..(high - 1)

\* generate_text up to the loop: load_weights, compile, the seed
\* pattern = np.ravel(X[start]).tolist()
GenerateStart ==
    \E c \in {"generate_1", "generate_2"} :
        /\ Ready(c)
        /\ Missing(c) = {}
        /\ output' = <<>>
        /\ gi' = 0
        /\ IF LoadFails(GenerateFile(c))
             THEN /\ loaded' = [loaded EXCEPT ![c] = <<>>]
                  /\ start' = -1
                  /\ seed' = <<>>
                  /\ pattern' = <<>>
                  /\ UNCHANGED weights
                  /\ Finish(c, "OSError", {})
             ELSE /\ loaded' = [loaded EXCEPT ![c] = GenerateFile(c)]
                  /\ weights' = IF GenerateFile(c) \in FileNames
                                  THEN FileNamed(GenerateFile(c)).weights
                                  ELSE weights
                  /\ IF Randint(0, Len(X) - 1) = {}
                       THEN /\ start' = -1
                            /\ seed' = <<>>
                            /\ pattern' = <<>>
                            /\ Finish(c, "ValueError", {})
                       ELSE \E st \in Randint(0, Len(X) - 1) :
                              /\ start' = st
                              /\ seed' = X[st + 1]
                              /\ pattern' = X[st + 1]
                              /\ Enter(c, {})
        /\ UNCHANGED <<envVars, modelVars, dataVars, windowVars, epoch, best, lossHistory,
                       files, topicVars, classifyVars>>

\* one iteration of 'for i in range(250)': predict, argmax, the two appends,
\* the cut.  The prediction has n_out scores, argmax is the index of one.
GenerateStep ==
    /\ running \in {"generate_1", "generate_2"}
    /\ gi < N_GENERATE
    /\ \E index \in 0..(n_out - 1) :
        /\ output' = Append(output, index)
        /\ pattern' = Slide(pattern, index)
    /\ gi' = gi + 1
    /\ UNCHANGED <<envVars, modelVars, kernelVars, dataVars, windowVars, trainVars, loaded,
                   start, seed, topicVars, classifyVars>>

\* the loop is over, the predictions are printed
GenerateEnd ==
    /\ running \in {"generate_1", "generate_2"}
    /\ gi = N_GENERATE
    /\ Finish(running, "none", {})
    /\ UNCHANGED <<envVars, generateVars, topicVars, classifyVars>>

NextGenerate ==
    \/ NextData
    \/ CreateModel
    \/ TrainStart
    \/ TrainEpoch
    \/ TrainEnd
    \/ GenerateStart
    \/ GenerateStep
    \/ GenerateEnd

(***************************************************************************)
(* Initial states and specifications.                                      *)
(***************************************************************************)
\* '\n', ' ', 'a'
CharSet == {10, 32, 97}
SmallCharSet == {10, 97}
MissingFile == [exists |-> FALSE, content |-> <<>>]
FileOf(content) == [exists |-> TRUE, content |-> content]
\* a text long enough for windows, and one too short for any
SomeText == [k \in 1..MaxDataLen |-> IF k % 2 = 1 THEN 97 ELSE 10]
ShortText == [k \in 1..SEQ_LENGTH |-> 97]
SomeTokens == <<"cats", "said", "\n">>
SomeNews == [train |-> <<{"space"}, {"space", "image"}, {"the", "image"}, {"image"}>>,
             test |-> <<{"space", "image"}>>]

InitKernel ==
    /\ writer = [n \in Names |-> IF n \in SetupNames THEN "setup" ELSE "none"]
    /\ pc = [b \in Branches |-> 1]
    /\ running = "idle"
    /\ raised = [c \in Cells |-> "none"]
    /\ crossReads = {}
InitValues ==
    /\ text = <<>> /\ stopFlags = {} /\ doc = <<>> /\ texts = <<>>
    /\ article = <<>> /\ wpos = 0 /\ appended = <<>> /\ bigram = {}
    /\ vectorizer = Unfitted
    /\ lsa = [fits |-> 0, components |-> <<>>]
    /\ tfidf_train = <<>> /\ tfidf_test = <<>>
    /\ X_train = NoMatrix /\ X_test = NoMatrix
    /\ y_pred = [c \in {"naive_bayes", "svm"} |->
                    [done |-> FALSE, fit_basis |-> <<>>, predict_basis |-> <<>>,
                     lsa |-> <<>>]]
    /\ data = <<>> /\ chars = <<>> /\ char_to_int = <<>> /\ ix_to_char = <<>>
    /\ vocab_size = 0
    /\ list_X = <<>> /\ list_Y = <<>> /\ wi = 0 /\ dataReads = {} /\ X = <<>>
    /\ Y = <<>>
    /\ n_out = 0
    /\ model = <<>>
    /\ epoch = 0 /\ best = Infinity /\ lossHistory = <<>> /\ files = {}
    /\ weights = -1
    /\ loaded = [c \in {"generate_1", "generate_2"} |-> <<>>]
    /\ start = -1 /\ seed = <<>> /\ pattern = <<>> /\ output = <<>> /\ gi = 0

\* the whole notebook, the three branches in any order
Init ==
    /\ corpusFile \in {MissingFile, FileOf(SomeText), FileOf(ShortText)}
    /\ nlpResult \in {SomeTokens, <<"the", "42">>}
    /\ newsgroups = SomeNews
    /\ InitKernel
    /\ modelArgs = NoArgs
    /\ InitValues
Next == NextTopic \/ NextClassify \/ NextGenerate
Spec == Init /\ [][Next]_vars

\* the topic branch on every token sequence
InitTopic ==
    /\ corpusFile \in {MissingFile, FileOf(SomeText)}
    /\ nlpResult \in SeqsUpTo(TokenTexts, MaxTokens)
    /\ newsgroups = SomeNews
    /\ InitKernel
    /\ modelArgs = NoArgs
    /\ InitValues
SpecTopic == InitTopic /\ [][NextTopic]_vars

\* the classify branch on every collection of documents
InitClassify ==
    /\ corpusFile = FileOf(SomeText)
    /\ nlpResult = SomeTokens
    /\ newsgroups \in [train : SeqsUpTo(DocSet, MaxTrainDocs) \ {<<>>},
                       test : SeqsUpTo(DocSet, MaxTestDocs) \ {<<>>}]
    /\ InitKernel
    /\ modelArgs = NoArgs
    /\ InitValues
SpecClassify == InitClassify /\ [][NextClassify]_vars

\* the data cells of the generate branch on every string
InitData ==
    /\ corpusFile \in {MissingFile} \cup {FileOf(d) : d \in SeqsUpTo(CharSet, MaxDataLen)}
    /\ nlpResult = SomeTokens
    /\ newsgroups = SomeNews
    /\ InitKernel
    /\ modelArgs = NoArgs
    /\ InitValues
SpecData == InitData /\ [][NextData]_vars

\* the generate branch
InitGenerate ==
    /\ corpusFile \in {MissingFile}
                        \cup {FileOf(d) : d \in SeqsUpTo(SmallCharSet, MaxDataLen)}
    /\ nlpResult = SomeTokens
    /\ newsgroups = SomeNews
    /\ InitKernel
    /\ modelArgs = NoArgs
    /\ InitValues
SpecGenerate == InitGenerate /\ [][NextGenerate]_vars

\* create_model on every argument list
Modes == {"train", "test", "generate"}
InitCreateModel ==
    /\ corpusFile = FileOf(SomeText)
    /\ nlpResult = SomeTokens
    /\ newsgroups = SomeNews
    /\ modelArgs \in [n_layers : 0..MaxLayers,
                       input_shape : {<<MaxDataLen - SEQ_LENGTH, SEQ_LENGTH, 1>>},
                       hidden_dim : {128, 256},
                       n_out : 1..MaxDataLen,
                       mode : Modes]
    /\ InitKernel
    /\ InitValues
SpecCreateModel == InitCreateModel /\ [][CreateModelCall]_vars

(***************************************************************************)
(* The claims.                                                             *)
(***************************************************************************)
CellIndex(c) == CHOOSE k \in 1..Len(BranchCells(CellBranch(c))) :
                    BranchCells(CellBranch(c))[k] = c
\* cell c has run to its end without raising
Completed(c) == pc[CellBranch(c)] > CellIndex(c) /\ raised[c] = "none"

\* C1: the sliding-window loop never reads data outside 0 .. len(data) - 1 and
\* never raises; every example it has produced is the ids of SEQ_LENGTH
\* consecutive characters and the id of the character after them; once the
\* loop is over there are max(0, len(data) - SEQ_LENGTH) examples, and the
\* target of the last one is the last character of data.
C1_SlidingWindows ==
    /\ dataReads \subseteq 0..(Len(data) - 1)
    /\ raised["windows"] # "IndexError"
    /\ Len(list_Y) = Len(list_X)
    /\ \A i \in 0..(Len(list_X) - 1) :
        /\ list_X[i + 1] = [j \in 1..SEQ_LENGTH |-> char_to_int[data[i + j]]]
        /\ list_Y[i + 1] = char_to_int[data[i + SEQ_LENGTH + 1]]
    /\ Completed("windows") =>
        /\ Len(list_X) = (IF Len(data) > SEQ_LENGTH THEN Len(data) - SEQ_LENGTH ELSE 0)
        /\ Len(list_X) > 0 => list_Y[Len(list_Y)] = char_to_int[data[Len(data)]]
        /\ Len(list_X) > 0 => dataReads = 0..(Len(data) - 1)
C1_Witness ==
    /\ Completed("windows")
    /\ Len(list_X) = 2
    /\ list_Y[1] # list_Y[2]

\* C2: once the data cell has run, char_to_int and ix_to_char are inverse
\* bijections between the distinct characters of data and 0 .. vocab_size - 1,
\* vocab_size is the number of distinct characters, and every id in list_X
\* and list_Y lies in 0 .. vocab_size - 1.
C2_AlphabetBijection ==
    Completed("load_data") =>
        /\ vocab_size = Cardinality(Range(data))
        /\ DOMAIN char_to_int = Range(data)
        /\ DOMAIN ix_to_char = 0..(vocab_size - 1)
        /\ \A c \in Range(data) :
            /\ char_to_int[c] \in 0..(vocab_size - 1)
            /\ ix_to_char[char_to_int[c]] = c
        /\ \A k \in 0..(vocab_size - 1) :
            /\ ix_to_char[k] \in Range(data)
            /\ char_to_int[ix_to_char[k]] = k
        /\ \A i \in 1..Len(list_X) : Range(list_X[i]) \subseteq 0..(vocab_size - 1)
        /\ Range(list_Y) \subseteq 0..(vocab_size - 1)
C2_Witness ==
    /\ Completed("windows")
    /\ vocab_size = 3
    /\ Len(data) > vocab_size
    /\ Len(list_Y) > 0

\* the tokens the corpus-building loop has gone through, while it runs and
\* until texts is bound anew (line 318)
LoopView ==
    \/ running = "build_corpus"
    \/ Completed("build_corpus") /\ pc["topic"] <= CellIndex("apply_phrases")
Newline(p) == doc[p] = "\n"
Filtered(p) == Newline(p) \/ IsStop(doc[p]) \/ IsPunct(doc[p]) \/ LikeNum(doc[p])
Unfiltered(p) == ~Filtered(p)
NewlinesUpTo(n) == {p \in 1..n : Newline(p)}
\* the position of the k-th newline token (0 for k = 0)
NthNewline(k) ==
    IF k = 0 THEN 0
    ELSE CHOOSE p \in NewlinesUpTo(Len(doc)) : Cardinality(NewlinesUpTo(p)) = k
\* the lemmas of the retained tokens strictly between positions lo and hi
LemmasBetween(lo, hi) ==
    LET between == [k \in 1..(hi - lo - 1) |-> lo + k]
        kept == SelectSeq(between, Unfiltered)
    IN  [k \in 1..Len(kept) |-> Lemma(doc[kept[k]])]

\* C3: while the loop runs and after it, texts has one entry per newline
\* token gone through, in order; entry k is the lemmas, in token order, of
\* the retained tokens between the (k-1)-th newline (or the start) and the
\* k-th; the retained tokens after the last newline are in article and in no
\* entry of texts.
C3_Segmentation ==
    LoopView =>
        /\ Len(texts) = Cardinality(NewlinesUpTo(wpos))
        /\ \A k \in 1..Len(texts) :
            texts[k] = LemmasBetween(NthNewline(k - 1), NthNewline(k))
        /\ article = LemmasBetween(NthNewline(Len(texts)), wpos + 1)
C3_Witness ==
    /\ Completed("build_corpus")
    /\ Len(texts) = 1
    /\ texts[1] # <<>>
    /\ article # <<>>

RECURSIVE Flatten(_)
Flatten(ls) == IF ls = <<>> THEN <<>> ELSE ls[1] \o Flatten(Tail(ls))

GenerateCalls == {"generate_1", "generate_2"}
\* the last n elements of s
LastN(s, n) == SubSeq(s, Len(s) - n + 1, Len(s))
\* call c has returned and no later call has begun
Returned(c) == Completed(c) /\ running = "idle" /\ pc["generate"] = CellIndex(c) + 1

\* C5: in generate_text, at the start of every iteration and after the last,
\* pattern has the length of the seed, SEQ_LENGTH, and is the last elements
\* of the seed followed by the output so far; the output has one element per
\* iteration done; the loop ends after N_GENERATE iterations, with that many
\* elements in output.
C5_FixedWindow ==
    /\ \A c \in GenerateCalls : (running = c \/ Returned(c)) =>
        /\ Len(seed) = SEQ_LENGTH
        /\ Len(pattern) = Len(seed)
        /\ pattern = LastN(seed \o output, Len(seed))
        /\ Len(output) = gi
        /\ gi <= N_GENERATE
    /\ \A c \in GenerateCalls : Returned(c) => Len(output) = N_GENERATE
C5_Witness ==
    /\ Returned("generate_2")
    /\ Len(output) > Len(seed)
    /\ pattern # seed

\* C6: fit runs exactly n_epochs epochs; a checkpoint file is written at the
\* end of epoch e exactly when the loss of e is lower than the loss of every
\* earlier epoch (so always at the first), and its name holds e and the loss
\* of e to four decimals.
C6_Checkpointing ==
    /\ epoch = Len(lossHistory)
    /\ epoch <= N_EPOCHS
    /\ Completed("train") => epoch = N_EPOCHS
    /\ \A e \in 1..epoch :
        (\E f \in files : f.name[1] = e)
            <=> (\A k \in 1..(e - 1) : lossHistory[e] < lossHistory[k])
    /\ \A f \in files :
        /\ f.name[1] \in 1..epoch
        /\ f.weights = f.name[1]
        /\ f.name[2] * 10 - 5 <= lossHistory[f.name[1]]
        /\ lossHistory[f.name[1]] < f.name[2] * 10 + 5
C6_Witness ==
    /\ Completed("train")
    /\ lossHistory[2] >= lossHistory[1]
    /\ Cardinality(files) = 1

EpochOfLeastLoss(e) ==
    /\ e \in 1..Len(lossHistory)
    /\ \A k \in 1..Len(lossHistory) : lossHistory[e] <= lossHistory[k]
\* C7 (as claimed): the weights file a call of generate_text loads is the
\* checkpoint written at the epoch whose training loss is the least of all
\* epochs train has run.
C7_LoadsLeastLoss ==
    \A c \in GenerateCalls :
        loaded[c] # <<>> => EpochOfLeastLoss(loaded[c][1])

\* C8: no failure is caught.  A cell that has raised is no longer in
\* execution.  When open() fails in a loading cell, the names the cell binds
\* after it (text; data, chars, char_to_int, ix_to_char, vocab_size) stay
\* unbound.  A call of generate_text is past load_weights only if its weights
\* file exists; when load_weights fails the call ends in the error with no
\* seed chosen, no prediction step taken and nothing in output.
C8_FailuresPropagate ==
    /\ \A c \in Cells : raised[c] # "none" => running # c /\ pc[CellBranch(c)] > CellIndex(c)
    /\ ~corpusFile.exists /\ pc["topic"] > CellIndex("load_corpus") =>
        /\ raised["load_corpus"] = "IOError"
        /\ ~Bound("text")
        /\ text = <<>>
    /\ ~corpusFile.exists /\ pc["generate"] > CellIndex("load_data") =>
        /\ raised["load_data"] = "IOError"
        /\ \A n \in {"data", "chars", "char_to_int", "ix_to_char", "vocab_size"} :
            ~Bound(n)
        /\ data = <<>> /\ chars = <<>> /\ vocab_size = 0
    /\ \A c \in GenerateCalls :
        /\ running = c => GenerateFile(c) \in FileNames
        /\ Returned(c) => GenerateFile(c) \in FileNames /\ loaded[c] = GenerateFile(c)
        /\ (raised[c] = "OSError" /\ running = "idle"
                /\ pc["generate"] = CellIndex(c) + 1) =>
            /\ GenerateFile(c) \notin FileNames
            /\ loaded[c] = <<>>
            /\ start = -1 /\ seed = <<>> /\ pattern = <<>>
            /\ output = <<>> /\ gi = 0
C8_Witness ==
    /\ raised["generate_2"] = "OSError"
    /\ raised["generate_1"] = "none"
    /\ loaded["generate_1"] # <<>>

C10_SameVectorizer ==
    /\ vectorizer.fits <= 1
    /\ vectorizer.fitted => vectorizer.fits = 1
    /\ Completed("fit_train") =>
        /\ vectorizer.fitted
        /\ vectorizer.vocabulary = FitVocabulary(newsgroups.train)
        /\ \A t \in vectorizer.vocabulary :
            vectorizer.idf[t] = <<Len(newsgroups.train), DocFreq(newsgroups.train, t)>>
        /\ \A k \in 1..Len(tfidf_train) : DOMAIN tfidf_train[k] = vectorizer.vocabulary
    /\ Completed("extract_test") =>
        /\ Len(tfidf_test) = Len(newsgroups.test)
        /\ \A k \in 1..Len(tfidf_test) :
            /\ DOMAIN tfidf_test[k] = vectorizer.vocabulary
            /\ \A j \in 1..Len(tfidf_train) : DOMAIN tfidf_test[k] = DOMAIN tfidf_train[j]
C10_Witness ==
    /\ Completed("extract_test")
    /\ (UNION Range(newsgroups.test)) \ vectorizer.vocabulary # {}
    /\ (UNION Range(newsgroups.test)) \cap vectorizer.vocabulary # {}

\* C11 (as claimed): when a classifier predicts on X_test, the reduction that
\* produced X_test is in the state fitted on the training matrix, the state
\* that produced X_train: lsa is fitted once, and not again between X_train
\* and X_test.
C11_LsaNotRefitted ==
    /\ lsa.fits <= 1
    /\ Completed("extract_test") /\ raised["extract_test"] = "none" =>
        /\ lsa.components = tfidf_train
        /\ X_test.basis = X_train.basis
    /\ \A c \in {"naive_bayes", "svm"} :
        y_pred[c].done =>
            /\ y_pred[c].predict_basis = y_pred[c].fit_basis
            /\ y_pred[c].lsa = y_pred[c].fit_basis

\* C12: Y has one row per target, each of width 1 + the largest id in list_Y,
\* at most vocab_size; n_out, the width of the model's output, is that width;
\* in generate_text every predicted index is in 0 .. n_out - 1 and a key of
\* ix_to_char, and every element of pattern is in 0 .. vocab_size - 1.
C12_IndicesDecode ==
    /\ Completed("reshape") =>
        /\ Len(Y) = Len(list_Y)
        /\ \A k \in 1..Len(Y) :
            /\ DOMAIN Y[k] = 0..SetMax(Range(list_Y))
            /\ \A j \in DOMAIN Y[k] : Y[k][j] = 1 <=> j = list_Y[k]
        /\ Shape1(Y) <= vocab_size
    /\ Completed("create_model") =>
        /\ n_out = Shape1(Y)
        /\ n_out = 1 + SetMax(Range(list_Y))
        /\ \A k \in 1..Len(Y) : Cardinality(DOMAIN Y[k]) = n_out
        /\ n_out <= vocab_size
    /\ \A c \in GenerateCalls : (running = c \/ Returned(c)) =>
        /\ Range(output) \subseteq 0..(n_out - 1)
        /\ Range(output) \subseteq DOMAIN ix_to_char
        /\ Range(pattern) \subseteq 0..(vocab_size - 1)
        /\ Range(pattern) \subseteq DOMAIN ix_to_char
C12_Witness ==
    /\ Returned("generate_2")
    /\ n_out = vocab_size
    /\ (n_out - 1) \in Range(output)
    /\ (n_out - 1) \in Range(pattern)

LayersOfKind(m, kind) == {k \in 1..Len(m) : m[k].kind = kind}
\* C13: for n_layers >= 1 the model create_model returns has n_layers LSTM
\* layers and then one Dense layer of n_out units, the last layer; every LSTM
\* but the last returns sequences, the last does not.  In mode 'train' one
\* layer gives LSTM, Dropout, Dense, and two or more give a Dropout right
\* after each LSTM but the last and no other; in any other mode there is no
\* Dropout.
C13_LayerSequence ==
    (model # <<>> /\ modelArgs.n_layers >= 1) =>
        LET n == modelArgs.n_layers
            lstm == LayersOfKind(model, "LSTM")
            dropout == LayersOfKind(model, "Dropout")
            last == SetMax(lstm)
        IN  /\ Cardinality(lstm) = n
            /\ LayersOfKind(model, "Dense") = {Len(model)}
            /\ model[Len(model)].units = modelArgs.n_out
            /\ lstm \cup dropout = 1..(Len(model) - 1)
            /\ \A k \in lstm : model[k].return_sequences <=> k # last
            /\ (modelArgs.mode = "train" /\ n = 1) =>
                [k \in 1..Len(model) |-> model[k].kind] = <<"LSTM", "Dropout", "Dense">>
            /\ (modelArgs.mode = "train" /\ n >= 2) =>
                /\ Cardinality(dropout) = n - 1
                /\ \A k \in lstm : (k + 1) \in dropout <=> k # last
            /\ modelArgs.mode # "train" => dropout = {}
C13_Witness ==
    /\ model # <<>>
    /\ modelArgs.n_layers >= 3
    /\ modelArgs.mode = "train"
    /\ Len(model) = 2 * modelArgs.n_layers

\* C14: a call of generate_text that is past the draw has start in
\* 0 .. len(X) - 2, a valid index of X and never the last one, and its seed
\* is X[start], SEQ_LENGTH ids; X has at least two windows then.  With fewer
\* than two windows the draw raises ValueError and there is no seed.
C14_Seeding ==
    \A c \in GenerateCalls :
        /\ (running = c \/ Returned(c)) =>
            /\ Len(X) >= 2
            /\ start \in 0..(Len(X) - 2)
            /\ (start + 1) \in DOMAIN X
            /\ start # Len(X) - 1
            /\ seed = X[start + 1]
            /\ Len(seed) = SEQ_LENGTH
        /\ (running = "idle" /\ pc["generate"] = CellIndex(c) + 1
                /\ loaded[c] # <<>> /\ Len(X) < 2) =>
            /\ raised[c] = "ValueError"
            /\ start = -1 /\ seed = <<>> /\ output = <<>>
        /\ raised[c] = "ValueError" => Len(X) < 2
C14_Witness ==
    /\ Returned("generate_2")
    /\ Len(X) = 3
    /\ start = Len(X) - 2
    /\ seed # X[1]

=============================================================================
